---- MODULE Spec2Model ----
(***************************************************************************)
(* A model of the Kepler solvers of rust-kepler-solver: EllipseSolver      *)
(* (src/src/ellipse.rs) and HyperbolaSolver (src/src/hyperbola.rs).        *)
(*                                                                         *)
(* The solvers compute on f64.  The model computes on IEEE-754 binary64    *)
(* values as well: a value is a record [k, s, m, e] with kind k ("fin",    *)
(* "inf", "nan"), sign s, a 53-bit significand m held as four 14-bit       *)
(* limbs (least significant first) and exponent e, standing for            *)
(* (-1)^s * m * 2^e.  Addition, subtraction, multiplication, division and  *)
(* square root round to nearest, ties to even, with gradual underflow,     *)
(* overflow to infinity and the NaN rules of the standard.                 *)
(*                                                                         *)
(* A value that is used more than once is passed on as the parameter of    *)
(* a further operator, so that it is computed once.                        *)
(***************************************************************************)
EXTENDS Integers, Sequences, FiniteSets, TLC

(***************************************************************************)
(* binary64: natural numbers as limb sequences                             *)
(***************************************************************************)
LimbBitsW == 14
Base == 16384
MantBits == 53
EMin == -1074
EMax == 971

\* 2^28: two limbs
Base2 == Base * Base

Max(a, b) == IF a >= b THEN a ELSE b
Min(a, b) == IF a <= b THEN a ELSE b

Limb(X, i) == IF i >= 1 /\ i <= Len(X) THEN X[i] ELSE 0

Zero4 == <<0, 0, 0, 0>>

Limbs4(X) == <<Limb(X, 1), Limb(X, 2), Limb(X, 3), Limb(X, 4)>>

RECURSIVE Carry(_, _, _, _)
Carry(v, i, c, acc) ==
    IF i > Len(v)
    THEN (IF c = 0 THEN acc ELSE Append(acc, c))
    ELSE Carry(v, i + 1, (v[i] + c) \div Base, Append(acc, (v[i] + c) % Base))

BAdd(X, Y) ==
    Carry([i \in 1..Max(Len(X), Len(Y)) |-> Limb(X, i) + Limb(Y, i)], 1, 0, <<>>)

\* X - Y for X >= Y
BSub(X, Y) ==
    Carry([i \in 1..Max(Len(X), Len(Y)) |-> Limb(X, i) - Limb(Y, i)], 1, 0, <<>>)

RECURSIVE BCmpFrom(_, _, _)
BCmpFrom(X, Y, i) ==
    IF i = 0 THEN 0
    ELSE IF Limb(X, i) > Limb(Y, i) THEN 1
    ELSE IF Limb(X, i) < Limb(Y, i) THEN -1
    ELSE BCmpFrom(X, Y, i - 1)

BCmp(X, Y) == BCmpFrom(X, Y, Max(Len(X), Len(Y)))

RECURSIVE LimbBits(_)
LimbBits(x) == IF x = 0 THEN 0 ELSE 1 + LimbBits(x \div 2)

RECURSIVE TopIdx(_, _)
TopIdx(X, i) == IF i = 0 THEN 0 ELSE IF X[i] # 0 THEN i ELSE TopIdx(X, i - 1)

BitLenAt(X, t) == IF t = 0 THEN 0 ELSE LimbBitsW * (t - 1) + LimbBits(X[t])

BitLen(X) == BitLenAt(X, TopIdx(X, Len(X)))

Shl(X, n) ==
    [i \in 1..(Len(X) + (n \div LimbBitsW) + 1) |->
        ((Limb(X, i - (n \div LimbBitsW)) * (2 ^ (n % LimbBitsW))) % Base)
        + ((Limb(X, i - (n \div LimbBitsW) - 1) * (2 ^ (n % LimbBitsW))) \div Base)]

Shr(X, n) ==
    [i \in 1..Len(X) |->
        (Limb(X, i + (n \div LimbBitsW)) \div (2 ^ (n % LimbBitsW)))
        + ((Limb(X, i + (n \div LimbBitsW) + 1) % (2 ^ (n % LimbBitsW)))
           * (2 ^ (LimbBitsW - (n % LimbBitsW))))]

Bit(X, n) == (Limb(X, (n \div LimbBitsW) + 1) \div (2 ^ (n % LimbBitsW))) % 2

\* some bit of X below bit n is set
LowNonzero(X, n) ==
    \/ \E i \in 1..Min(n \div LimbBitsW, Len(X)) : X[i] # 0
    \/ Limb(X, (n \div LimbBitsW) + 1) % (2 ^ (n % LimbBitsW)) # 0

(***************************************************************************)
(* binary64: values and rounding                                           *)
(***************************************************************************)
NaN == [k |-> "nan", s |-> 0, m |-> Zero4, e |-> 0]
Inf(s) == [k |-> "inf", s |-> s, m |-> Zero4, e |-> 0]
Zero(s) == [k |-> "fin", s |-> s, m |-> Zero4, e |-> 0]
F64(s, m, e) == [k |-> "fin", s |-> s, m |-> m, e |-> e]

IsNaN(a) == a.k = "nan"
IsInf(a) == a.k = "inf"
IsZero(a) == a.k = "fin" /\ a.m = Zero4
IsFinite(a) == a.k = "fin"

PackLimbs(s, m, e) ==
    IF m = Zero4 THEN Zero(s) ELSE IF e > EMax THEN Inf(s) ELSE F64(s, m, e)

\* q may have grown to 54 bits
Renorm(s, q, e, big) ==
    PackLimbs(s, Limbs4(IF big THEN Shr(q, 1) ELSE q), IF big THEN e + 1 ELSE e)

RoundUp(s, q, e) == Renorm(s, q, e, Limb(q, 4) >= 2 ^ (MantBits - 3 * LimbBitsW))

\* X shifted down by sh bits and rounded to nearest, ties to even
RoundBy(s, X, ex, sticky, sh) ==
    RoundUp(s,
            IF sh <= 0 THEN Shl(X, -sh)
            ELSE IF Bit(X, sh - 1) = 1
                    /\ (sticky \/ LowNonzero(X, sh - 1) \/ Bit(X, sh) = 1)
            THEN BAdd(Shr(X, sh), <<1>>)
            ELSE Shr(X, sh),
            ex + sh)

RoundAt(s, X, ex, sticky, L) ==
    IF L = 0 THEN Zero(s)
    ELSE RoundBy(s, X, ex, sticky,
                 IF ex + L - MantBits < EMin THEN EMin - ex ELSE L - MantBits)

\* the binary64 nearest (ties to even) to (-1)^s * (X + t) * 2^ex, where
\* 0 < t < 1 when sticky and t = 0 otherwise
Round(s, X, ex, sticky) == RoundAt(s, X, ex, sticky, BitLen(X))

\* r = <<s, X, ex, sticky>>
RoundRaw(r) == Round(r[1], r[2], r[3], r[4])

Neg(a) == IF IsNaN(a) THEN a ELSE [a EXCEPT !.s = 1 - a.s]
Abs(a) == IF IsNaN(a) THEN a ELSE [a EXCEPT !.s = 0]

\* how far apart two exponents may be for the smaller value to count
\* as more than a sticky bit
FarApart == 60

\* -1, 0, 1 as |a| <, =, > |b|, for finite non-zero a and b
CmpMag(a, b) ==
    IF a.e - b.e > FarApart THEN 1
    ELSE IF b.e - a.e > FarApart THEN -1
    ELSE BCmp(Shl(a.m, Max(a.e - b.e, 0)), Shl(b.m, Max(b.e - a.e, 0)))

\* the sum when the exponents are far apart: big and a sticky bit
AddFar(big, same) ==
    <<big.s, IF same THEN Shl(big.m, 3) ELSE BSub(Shl(big.m, 3), <<1>>),
      big.e - 3, TRUE>>

\* the sum of opposite signs from the aligned significands A and B,
\* c = BCmp(A, B)
AddDiff(a, b, A, B, c) ==
    <<IF c = 0 THEN 0 ELSE IF c > 0 THEN a.s ELSE b.s,
      BSub(IF c >= 0 THEN A ELSE B, IF c >= 0 THEN B ELSE A),
      Min(a.e, b.e), FALSE>>

\* the sum from the aligned significands A and B
AddNear(a, b, A, B) ==
    IF a.s = b.s THEN <<a.s, BAdd(A, B), Min(a.e, b.e), FALSE>>
    ELSE AddDiff(a, b, A, B, BCmp(A, B))

\* a + b for finite non-zero a and b, not yet rounded
AddRaw(a, b) ==
    IF a.e - b.e > FarApart THEN AddFar(a, a.s = b.s)
    ELSE IF b.e - a.e > FarApart THEN AddFar(b, a.s = b.s)
    ELSE AddNear(a, b, Shl(a.m, Max(a.e - b.e, 0)), Shl(b.m, Max(b.e - a.e, 0)))

Add(a, b) ==
    IF IsNaN(a) \/ IsNaN(b) THEN NaN
    ELSE IF IsInf(a) THEN (IF IsInf(b) /\ a.s # b.s THEN NaN ELSE a)
    ELSE IF IsInf(b) THEN b
    ELSE IF IsZero(a)
    THEN (IF IsZero(b) THEN Zero(IF a.s = 1 /\ b.s = 1 THEN 1 ELSE 0) ELSE b)
    ELSE IF IsZero(b) THEN a
    ELSE RoundRaw(AddRaw(a, b))

Sub(a, b) == Add(a, Neg(b))

MulCols(a, b) ==
    << a[1] * b[1],
       a[1] * b[2] + a[2] * b[1],
       a[1] * b[3] + a[2] * b[2] + a[3] * b[1],
       a[1] * b[4] + a[2] * b[3] + a[3] * b[2] + a[4] * b[1],
       a[2] * b[4] + a[3] * b[3] + a[4] * b[2],
       a[3] * b[4] + a[4] * b[3],
       a[4] * b[4],
       0 >>

Mul(a, b) ==
    IF IsNaN(a) \/ IsNaN(b) THEN NaN
    ELSE IF IsInf(a) \/ IsInf(b)
    THEN (IF IsZero(a) \/ IsZero(b) THEN NaN ELSE Inf((a.s + b.s) % 2))
    ELSE IF IsZero(a) \/ IsZero(b) THEN Zero((a.s + b.s) % 2)
    ELSE Round((a.s + b.s) % 2, Carry(MulCols(a.m, b.m), 1, 0, <<>>),
               a.e + b.e, FALSE)

Lo28(X) == X[1] + Base * X[2]
Hi28(X) == X[3] + Base * X[4]

\* (h, l) - (ch, cl) when that is not negative, on numbers held as two
\* 28-bit halves: <<1, difference>>, and <<0, h, l>> otherwise
CondSubGe(h, l, ch, cl, ge) ==
    IF ~ge THEN <<0, h, l>>
    ELSE IF l >= cl THEN <<1, h - ch, l - cl>>
    ELSE <<1, h - ch - 1, l - cl + Base2>>

CondSub(h, l, ch, cl) == CondSubGe(h, l, ch, cl, h > ch \/ (h = ch /\ l >= cl))

\* the quotient t[1], t[2] takes the bit d[1]; the remainder d[2], d[3]
\* is doubled
DivPut(t, d) ==
    << 2 * t[1] + ((2 * t[2] + d[1]) \div Base2), (2 * t[2] + d[1]) % Base2,
       2 * d[2] + ((2 * d[3]) \div Base2), (2 * d[3]) % Base2 >>

\* n steps of restoring division on t = <<qh, ql, rh, rl>>, quotient and
\* remainder, by the divisor (bh, bl)
RECURSIVE DivLoop(_, _, _, _)
DivLoop(t, bh, bl, n) ==
    IF n = 0 \/ t[1] < 0 THEN t
    ELSE DivLoop(DivPut(t, CondSub(t[3], t[4], bh, bl)), bh, bl, n - 1)

\* the significand of a finite non-zero value shifted up to 53 bits, and
\* the exponent that goes with it
NormBy(a, n) == [m |-> Limbs4(Shl(a.m, n)), e |-> a.e - n]

Norm(a) == NormBy(a, MantBits - BitLen(a.m))

\* the quotient bits in r[1], r[2], the remainder in r[3], r[4]
DivRound(s, ex, r) ==
    Round(s, <<r[2] % Base, r[2] \div Base, r[1] % Base, r[1] \div Base>>, ex,
          r[3] # 0 \/ r[4] # 0)

\* 56 quotient bits of A / B for 53-bit A and B
DivNorm(s, A, B) ==
    DivRound(s, A.e - B.e - 55,
             DivLoop(<<0, 0, Hi28(A.m), Lo28(A.m)>>, Hi28(B.m), Lo28(B.m), 56))

Div(a, b) ==
    IF IsNaN(a) \/ IsNaN(b) THEN NaN
    ELSE IF IsInf(a) THEN (IF IsInf(b) THEN NaN ELSE Inf((a.s + b.s) % 2))
    ELSE IF IsInf(b) THEN Zero((a.s + b.s) % 2)
    ELSE IF IsZero(b) THEN (IF IsZero(a) THEN NaN ELSE Inf((a.s + b.s) % 2))
    ELSE IF IsZero(a) THEN Zero((a.s + b.s) % 2)
    ELSE DivNorm((a.s + b.s) % 2, Norm(a), Norm(b))

\* bits 2i and 2i+1 of X, none below bit 0
TwoBits(X, i) ==
    IF i >= 0
    THEN (Limb(X, ((2 * i) \div LimbBitsW) + 1) \div (2 ^ ((2 * i) % LimbBitsW))) % 4
    ELSE 0

\* the root t[1], t[2] takes the bit d[1]; d[2], d[3] is the remainder
SqrtPut(t, d) ==
    << 2 * t[1] + ((2 * t[2] + d[1]) \div Base2), (2 * t[2] + d[1]) % Base2,
       d[2], d[3] >>

\* the steps i, i-1, ..., last of the integer square root of X, two bits
\* of X a step, on t = <<th, tl, rh, rl>>, root and remainder
RECURSIVE SqrtLoop(_, _, _, _)
SqrtLoop(X, t, i, last) ==
    IF i < last \/ t[1] < 0 THEN t
    ELSE SqrtLoop(X,
                  SqrtPut(t, CondSub(4 * t[3] + ((4 * t[4] + TwoBits(X, i)) \div Base2),
                                     (4 * t[4] + TwoBits(X, i)) % Base2,
                                     4 * t[1] + ((4 * t[2] + 1) \div Base2),
                                     (4 * t[2] + 1) % Base2)),
                  i - 1, last)

\* the root bits in r[1], r[2], the remainder in r[3], r[4]
SqrtRound(ex, r) ==
    Round(0, <<r[2] % Base, r[2] \div Base, r[1] % Base, r[1] \div Base>>, ex,
          r[3] # 0 \/ r[4] # 0)

\* the integer square root of X * 2^56 for a 54-bit X: 55 steps
SqrtNorm(A) ==
    SqrtRound(((IF A.e % 2 = 1 THEN A.e - 1 ELSE A.e) - 56) \div 2,
              SqrtLoop(IF A.e % 2 = 1 THEN Shl(A.m, 1) ELSE A.m,
                       <<0, 0, 0, 0>>, 26, -28))

Sqrt(a) ==
    IF IsNaN(a) THEN NaN
    ELSE IF IsZero(a) THEN a
    ELSE IF a.s = 1 THEN NaN
    ELSE IF IsInf(a) THEN a
    ELSE SqrtNorm(Norm(a))

\* where a value not NaN stands among the infinities, zero and the rest
Rank(a) ==
    IF IsInf(a) THEN (IF a.s = 1 THEN -2 ELSE 2)
    ELSE IF IsZero(a) THEN 0
    ELSE IF a.s = 1 THEN -1 ELSE 1

CmpRank(a, b, ka, kb) ==
    IF ka > kb THEN 1
    ELSE IF ka < kb THEN -1
    ELSE IF ka = 0 \/ ka = 2 \/ ka = -2 THEN 0
    ELSE CmpMag(IF ka = 1 THEN a ELSE b, IF ka = 1 THEN b ELSE a)

\* -1, 0, 1 as a <, =, > b, for a and b not NaN (the two zeros are equal)
Cmp(a, b) == CmpRank(a, b, Rank(a), Rank(b))

Lt(a, b) == ~IsNaN(a) /\ ~IsNaN(b) /\ Cmp(a, b) < 0
Le(a, b) == ~IsNaN(a) /\ ~IsNaN(b) /\ Cmp(a, b) <= 0
Eq(a, b) == ~IsNaN(a) /\ ~IsNaN(b) /\ Cmp(a, b) = 0

\* an integer as a binary64 (exact for |n| < 2^31)
FromNat(s, n) ==
    Round(s, <<n % Base, (n \div Base) % Base, n \div Base2>>, 0, FALSE)

FromInt(n) == FromNat(IF n < 0 THEN 1 ELSE 0, IF n < 0 THEN -n ELSE n)

\* f64::signum: 1.0 or -1.0 by the sign bit, NaN for NaN
Signum(a) == IF IsNaN(a) THEN NaN ELSE F64(a.s, <<0, 0, 0, 1024>>, -52)

\* f64::powi(2)
Powi2(a) == Mul(a, a)

\* p as f64 / q as f64
Ratio(p, q) == Div(FromInt(p), FromInt(q))


(***************************************************************************)
(* binary64: the elementary functions of the standard library (f64::sin,   *)
(* cos, exp, ln, sinh, cosh), computed with the operations above by        *)
(* argument reduction and polynomial kernels; each result is within a few  *)
(* units in the last place of the exact value.                             *)
(***************************************************************************)
\* 1.0
One == F64(0, <<0, 0, 0, 1024>>, -52)
\* 2.0
Two == F64(0, <<0, 0, 0, 1024>>, -51)
\* 0.5
Half == F64(0, <<0, 0, 0, 1024>>, -53)
\* 2/pi
InvPio2 == F64(0, <<2179, 14119, 13062, 1303>>, -53)
\* pi/2, its leading 33 bits
Pio2Hi == F64(0, <<0, 4352, 8117, 1608>>, -52)
\* pi/2 - Pio2Hi
Pio2Lo == F64(0, <<9009, 10633, 1553, 1069>>, -86)
\* ln 2, its leading bits
Ln2Hi == F64(0, <<0, 15232, 9263, 1419>>, -53)
\* ln 2 - Ln2Hi
Ln2Lo == F64(0, <<15478, 5604, 7923, 1678>>, -85)
\* 1/ln 2
InvLn2 == F64(0, <<766, 5294, 5238, 1477>>, -52)
\* sqrt 2
Sqrt2 == F64(0, <<15309, 6652, 2534, 1448>>, -52)
\* exp overflows above this
ExpOverflow == F64(0, <<14831, 15336, 9263, 1419>>, -43)
\* exp is zero below this
ExpUnderflow == F64(1, <<12370, 5300, 4365, 1490>>, -43)
\* sinh and cosh take exp(|x|/2) above this
ExpSplit == F64(0, <<0, 0, 0, 1418>>, -43)
\* sin r = r + r^3 * poly(r^2) on |r| <= pi/4
SinCoef ==
    << F64(1, <<5449, 5461, 5461, 1365>>, -55),
       F64(0, <<14502, 1091, 4369, 1092>>, -59),
       F64(1, <<8661, 9989, 6657, 1664>>, -65),
       F64(0, <<15997, 7879, 7733, 1479>>, -71),
       F64(1, <<7403, 10414, 7784, 1721>>, -78),
       F64(0, <<5500, 11071, 5029, 1398>>, -85) >>
\* cos r = 1 - r^2/2 + r^4 * poly(r^2) on |r| <= pi/4
CosCoef ==
    << F64(0, <<5452, 5461, 5461, 1365>>, -57),
       F64(1, <<4471, 6917, 5825, 1456>>, -62),
       F64(0, <<5520, 10028, 6657, 1664>>, -68),
       F64(1, <<4781, 625, 9464, 1183>>, -74),
       F64(0, <<12740, 14034, 10731, 1147>>, -81),
       F64(1, <<14548, 14880, 11931, 1598>>, -89) >>
\* the kernel of exp on |r| <= ln(2)/2
ExpCoef ==
    << F64(0, <<5438, 5461, 5461, 1365>>, -55),
       F64(1, <<15763, 6906, 5825, 1456>>, -61),
       F64(0, <<7724, 15511, 9898, 1109>>, -66),
       F64(1, <<11249, 5961, 5148, 1775>>, -72),
       F64(0, <<9424, 2810, 13975, 1421>>, -77) >>
\* the kernel of ln on sqrt(2)/2 < 1+f <= sqrt(2)
LnCoef ==
    << F64(0, <<5523, 5461, 5461, 1365>>, -53),
       F64(0, <<14852, 9823, 6553, 1638>>, -54),
       F64(0, <<4953, 4234, 4681, 1170>>, -54),
       F64(0, <<14511, 13881, 7249, 1820>>, -55),
       F64(0, <<990, 6956, 9801, 1489>>, -55),
       F64(0, <<1695, 483, 8349, 1254>>, -55),
       F64(0, <<4676, 15609, 4397, 1212>>, -55) >>
\* 1/3!, 1/5!, ..., 1/19!: sinh x = x + x^3 * poly(x^2) on |x| < 1
SinhCoef ==
    << F64(0, <<5461, 5461, 5461, 1365>>, -55),
       F64(0, <<4369, 1092, 4369, 1092>>, -59),
       F64(0, <<8218, 10246, 6657, 1664>>, -65),
       F64(0, <<1844, 5467, 7738, 1479>>, -71),
       F64(0, <<1252, 8149, 9302, 1721>>, -78),
       F64(0, <<11529, 3745, 9313, 1412>>, -85),
       F64(0, <<14367, 7374, 16190, 1721>>, -93),
       F64(0, <<11594, 194, 11383, 1620>>, -101),
       F64(0, <<343, 6661, 2484, 1213>>, -109) >>

\* cs[1] + z * (cs[2] + z * (... + z * cs[Len(cs)])), from index i on
RECURSIVE Horner(_, _, _)
Horner(z, cs, i) ==
    IF i = Len(cs) THEN cs[i] ELSE Add(cs[i], Mul(z, Horner(z, cs, i + 1)))

\* |a| < 2^p, for finite a
Small(a, p) == IsZero(a) \/ BitLen(a.m) + a.e <= p

RIntBy(a, sh) ==
    Round(a.s,
          IF Bit(a.m, sh - 1) = 1 /\ (LowNonzero(a.m, sh - 1) \/ Bit(a.m, sh) = 1)
          THEN BAdd(Shr(a.m, sh), <<1>>)
          ELSE Shr(a.m, sh),
          0, FALSE)

\* the nearest integer-valued binary64 (ties to even), for finite a
RInt(a) == IF IsZero(a) \/ a.e >= 0 THEN a ELSE RIntBy(a, -a.e)

ToIntOf(s, v) ==
    IF s = 1 THEN -(Limb(v, 1) + Base * Limb(v, 2))
    ELSE Limb(v, 1) + Base * Limb(v, 2)

\* the integer an integer-valued binary64 stands for, for |a| < 2^28
ToInt(a) == ToIntOf(a.s, IF a.e >= 0 THEN Shl(a.m, a.e) ELSE Shr(a.m, -a.e))

Mod4Of(s, v) == IF s = 1 THEN (4 - v) % 4 ELSE v

\* an integer-valued binary64 modulo 4
Mod4(a) ==
    Mod4Of(a.s, IF IsZero(a) \/ a.e >= 2 THEN 0
                ELSE IF a.e >= 0 THEN Limb(Shl(a.m, a.e), 1) % 4
                ELSE Limb(Shr(a.m, -a.e), 1) % 4)

\* a * 2^n, rounded
Scalb(a, n) ==
    IF ~IsFinite(a) \/ IsZero(a) THEN a ELSE Round(a.s, a.m, a.e + n, FALSE)

KSinOf(r, z) == Add(r, Mul(Mul(r, z), Horner(z, SinCoef, 1)))

KSin(r) == KSinOf(r, Mul(r, r))

KCosOf(z) == Add(Sub(One, Mul(Half, z)), Mul(Mul(z, z), Horner(z, CosCoef, 1)))

KCos(r) == KCosOf(Mul(r, r))

ReduceBy(x, n) == <<Mod4(n), Sub(Sub(x, Mul(n, Pio2Hi)), Mul(n, Pio2Lo))>>

\* x = n * pi/2 + r with |r| <= pi/4 (about): <<n mod 4, r>>
Reduce(x) == ReduceBy(x, RInt(Mul(x, InvPio2)))

\* <<sin, cos>> of n * pi/2 + r from s = sin r and c = cos r
TrigPick(n, s, c) ==
    CASE n = 0 -> <<s, c>>
      [] n = 1 -> <<c, Neg(s)>>
      [] n = 2 -> <<Neg(s), Neg(c)>>
      [] OTHER -> <<Neg(c), s>>

TrigOf(nr) == TrigPick(nr[1], KSin(nr[2]), KCos(nr[2]))

\* <<f64::sin, f64::cos>>
Trig(x) ==
    IF IsNaN(x) \/ IsInf(x) THEN <<NaN, NaN>>
    ELSE IF Small(x, -27) THEN <<x, One>>
    ELSE TrigOf(Reduce(x))

\* f64::sin
Sin(x) == Trig(x)[1]

\* f64::cos
Cos(x) == Trig(x)[2]

ExpOf(n, hi, lo, r, c) ==
    Scalb(Sub(One, Sub(Sub(lo, Div(Mul(r, c), Sub(Two, c))), hi)), ToInt(n))

ExpKernel(r, t) == Sub(r, Mul(t, Horner(t, ExpCoef, 1)))

ExpR(n, hi, lo, r) == ExpOf(n, hi, lo, r, ExpKernel(r, Mul(r, r)))

ExpParts(n, hi, lo) == ExpR(n, hi, lo, Sub(hi, lo))

ExpBy(x, n) == ExpParts(n, Sub(x, Mul(n, Ln2Hi)), Mul(n, Ln2Lo))

\* f64::exp
Exp(x) ==
    IF IsNaN(x) THEN NaN
    ELSE IF IsInf(x) THEN (IF x.s = 1 THEN Zero(0) ELSE x)
    ELSE IF Lt(ExpOverflow, x) THEN Inf(0)
    ELSE IF Lt(x, ExpUnderflow) THEN Zero(0)
    ELSE IF Small(x, -28) THEN Add(One, x)
    ELSE ExpBy(x, RInt(Mul(x, InvLn2)))

HypSign(x, sc) == <<IF x.s = 1 THEN Neg(sc[1]) ELSE sc[1], sc[2]>>

HypSame(v) == <<v, v>>

HypInv(w, iw) == <<Mul(Half, Sub(w, iw)), Mul(Half, Add(w, iw))>>

\* <<sinh, cosh>> of x from w = exp(|x|), or w = exp(|x|/2) when big
HypOf(x, big, w) ==
    HypSign(x, IF big THEN HypSame(Mul(Mul(Half, w), w)) ELSE HypInv(w, Div(One, w)))

HypBy(x, ax, big) == HypOf(x, big, Exp(IF big THEN Mul(Half, ax) ELSE ax))

HypAbs(x, ax) == HypBy(x, ax, Lt(ExpSplit, ax))

\* <<sinh, cosh>> by way of exp
Hyp(x) == HypAbs(x, Abs(x))

SinhPoly(x, z) == Add(x, Mul(Mul(x, z), Horner(z, SinhCoef, 1)))

\* below 1 the sine is a polynomial, and h = Hyp(x) otherwise
SinhCoshOf(x, h) ==
    IF IsFinite(x) /\ Small(x, -28) THEN <<x, h[2]>>
    ELSE IF IsFinite(x) /\ Small(x, 0) THEN <<SinhPoly(x, Mul(x, x)), h[2]>>
    ELSE h

\* <<f64::sinh, f64::cosh>>
SinhCosh(x) == SinhCoshOf(x, Hyp(x))

\* f64::sinh
Sinh(x) == SinhCosh(x)[1]

\* f64::cosh
Cosh(x) == SinhCosh(x)[2]

LnOf(n, f, s, hfsq, z) ==
    Sub(Mul(n, Ln2Hi),
        Sub(Sub(hfsq, Add(Mul(s, Add(hfsq, Mul(z, Horner(z, LnCoef, 1)))),
                          Mul(n, Ln2Lo))),
            f))

LnS(n, f, s, hfsq) == LnOf(n, f, s, hfsq, Mul(s, s))

LnF(n, f) == LnS(n, f, Div(f, Add(Two, f)), Mul(Half, Mul(f, f)))

LnPick(m, k0, big) ==
    LnF(FromInt(IF big THEN k0 + 1 ELSE k0),
        Sub(F64(0, m, IF big THEN -53 ELSE -52), One))

LnSplit(m, k0) == LnPick(m, k0, Lt(Sqrt2, F64(0, m, -52)))

LnNorm(x, sh) == LnSplit(Limbs4(Shl(x.m, sh)), x.e - sh + 52)

\* f64::ln
Ln(x) ==
    IF IsNaN(x) THEN NaN
    ELSE IF IsZero(x) THEN Inf(1)
    ELSE IF x.s = 1 THEN NaN
    ELSE IF IsInf(x) THEN x
    ELSE LnNorm(x, MantBits - BitLen(x.m))

(***************************************************************************)
(* The literals of the source                                              *)
(***************************************************************************)
\* 3.0
Three == F64(0, <<0, 0, 0, 1536>>, -51)
\* 4.0
Four == F64(0, <<0, 0, 0, 1024>>, -50)
\* 5.0
Five == F64(0, <<0, 0, 0, 1280>>, -50)
\* 6.0
Six == F64(0, <<0, 0, 0, 1536>>, -50)
\* 8.0
Eight == F64(0, <<0, 0, 0, 1024>>, -49)
\* 17.0
Seventeen == F64(0, <<0, 0, 0, 1088>>, -48)
\* 20.0
Twenty == F64(0, <<0, 0, 0, 1280>>, -48)
\* 27.0
TwentySeven == F64(0, <<0, 0, 0, 1728>>, -48)
\* 28.0
TwentyEight == F64(0, <<0, 0, 0, 1792>>, -48)
\* 60.0
Sixty == F64(0, <<0, 0, 0, 1920>>, -47)
\* -1.0
MinusOne == F64(1, <<0, 0, 0, 1024>>, -52)
\* -2.0
MinusTwo == F64(1, <<0, 0, 0, 1024>>, -51)

(***************************************************************************)
(* src/src/ellipse.rs                                                      *)
(***************************************************************************)
\* std::f64::consts::PI
PI == F64(0, <<11544, 4368, 8117, 1608>>, -51)
\* the literal 0.999_999 of the seed
SeedFactor == F64(0, <<3049, 7300, 16350, 2047>>, -53)
\* a threshold of 1.0
DELTA_THRESHOLD_Loose == One

\* const DELTA_THRESHOLD: f64 = 1.0e-10
DELTA_THRESHOLD == F64(0, <<15803, 10078, 3581, 1759>>, -86)

\* n = 2.0; a = (n-1)^2 * f'^2 - n*(n-1)*f*f''; b = |sqrt|a|| * signum f'
laguerre_delta(f, f_prime, f_prime_prime) ==
    Div(Neg(Mul(Two, f)),
        Add(f_prime,
            Mul(Abs(Sqrt(Abs(Sub(Mul(Powi2(Sub(Two, One)), Powi2(f_prime)),
                                 Mul(Mul(Mul(Two, Sub(Two, One)), f),
                                     f_prime_prime))))),
                Signum(f_prime))))

\* EllipseSolver::new
EllipseNew(eccentricity) == [eccentricity |-> eccentricity]

\* the initial seed of EllipseSolver::solve
EllipseSeed(eccentricity, mean_anomaly) ==
    Add(mean_anomaly,
        Div(Mul(Mul(Mul(Mul(SeedFactor, Four), eccentricity), mean_anomaly),
                Sub(PI, mean_anomaly)),
            Add(Add(Mul(Mul(Eight, eccentricity), mean_anomaly),
                    Mul(Mul(Four, eccentricity), Sub(eccentricity, PI))),
                Powi2(PI))))

\* sc = <<sin_eccentric_anomaly, cos_eccentric_anomaly>>
EllipseDeltaOf(eccentricity, mean_anomaly, eccentric_anomaly, sc) ==
    laguerre_delta(Add(Sub(mean_anomaly, eccentric_anomaly),
                       Mul(eccentricity, sc[1])),
                   Add(MinusOne, Mul(eccentricity, sc[2])),
                   Mul(Neg(eccentricity), sc[1]))

\* the delta one pass of the loop of EllipseSolver::solve computes
EllipseDelta(eccentricity, mean_anomaly, eccentric_anomaly) ==
    EllipseDeltaOf(eccentricity, mean_anomaly, eccentric_anomaly,
                   Trig(eccentric_anomaly))

(***************************************************************************)
(* src/src/hyperbola.rs                                                    *)
(***************************************************************************)
\* const CUBIC_DELTA_THRESHOLD: f64 = 1.0e-6
CUBIC_DELTA_THRESHOLD == F64(0, <<11661, 727, 12154, 1073>>, -72)

\* the length of both tables
TableLen == 15

\* the table entries are written as quotients p / q
ThresholdNum == <<40, 38, 34, 30, 26, 22, 18, 15, 13, 11, 9, 7, 5, 3, 29>>
ThresholdDen == <<8, 8, 8, 8, 8, 8, 8, 8, 8, 8, 8, 8, 8, 8, 200>>
OrderNum == <<10, 9, 8, 7, 6, 5, 8, 7, 6, 5, 4, 3, 2, 1, 0>>
OrderDen == <<2, 2, 2, 2, 2, 2, 4, 4, 4, 4, 4, 4, 4, 4, 4>>

PADE_ECCENTRIC_ANOMALY_THRESHOLDS ==
    [j \in 1..TableLen |-> Ratio(ThresholdNum[j], ThresholdDen[j])]

\* PADE_ORDERS with the seventh entry written 8.0 / 2.0
PADE_ORDERS_Slip ==
    [j \in 1..TableLen |-> Ratio(OrderNum[j], IF j = 7 THEN 2 ELSE OrderDen[j])]

PADE_ORDERS == [j \in 1..TableLen |-> Ratio(OrderNum[j], OrderDen[j])]

hyperbolic_kepler_equation(eccentricity, eccentric_anomaly) ==
    Sub(Mul(eccentricity, Sinh(eccentric_anomaly)), eccentric_anomaly)

PadeCoefficients(ec, mh, a, sa, p1, p2, p3, q1, q2) ==
    << Sub(Mul(ec, p3), q2),
       Sub(Sub(Mul(ec, p2), Mul(Add(mh, a), q2)), q1),
       Sub(Sub(Mul(ec, p1), Mul(Add(mh, a), q1)), One),
       Sub(Sub(Mul(ec, sa), mh), a) >>

\* ca2 = ca.powi(2), sa2 = sa.powi(2)
PadeTerms(ec, mh, a, sa, ca, sa2, ca2, d1, d2) ==
    PadeCoefficients(ec, mh, a, sa,
        Div(Mul(ca, Add(Mul(Three, ca2), Seventeen)), Mul(Five, d1)),
        Div(Mul(sa, Add(Mul(Three, sa2), TwentyEight)), Mul(Twenty, d2)),
        Div(Mul(ca, Add(ca2, TwentySeven)), Mul(Sixty, d1)),
        Div(Mul(Mul(MinusTwo, ca), sa), Mul(Five, d1)),
        Div(Sub(sa2, Four), Mul(Twenty, d2)))

PadeSquares(ec, mh, a, sa, ca, sa2, ca2) ==
    PadeTerms(ec, mh, a, sa, ca, sa2, ca2, Add(ca2, Three), Add(sa2, Four))

PadeHyperbolic(ec, mh, a, sa, ca) ==
    PadeSquares(ec, mh, a, sa, ca, Powi2(sa), Powi2(ca))

\* ee = <<ex, enx>>
PadeFrom(ec, mh, a, ee) ==
    PadeHyperbolic(ec, mh, a,
                   Div(Sub(ee[1], ee[2]), Two), Div(Add(ee[1], ee[2]), Two))

pade_approximation(ec, mh, a) ==
    PadeFrom(ec, mh, a, [j \in 1..2 |-> Exp(IF j = 1 THEN a ELSE Neg(a))])

\* the starting value of solve_cubic
CubicSeed(mh, ec) == Div(mh, Sub(ec, One))

CubicDeltaOf(f, f_prime, f_prime_prime) ==
    Div(Mul(Mul(MinusTwo, f), f_prime),
        Sub(Mul(Two, Powi2(f_prime)), Mul(f, f_prime_prime)))

\* the delta one pass of the loop of solve_cubic computes (Halley's method)
CubicDelta(coefficients, x) ==
    CubicDeltaOf(
        Add(Mul(Add(Mul(Add(Mul(coefficients[1], x), coefficients[2]), x),
                    coefficients[3]), x), coefficients[4]),
        Add(Mul(Add(Mul(Mul(Three, coefficients[1]), x),
                    Mul(Two, coefficients[2])), x), coefficients[3]),
        Add(Mul(Mul(Six, coefficients[1]), x), Mul(Two, coefficients[2])))

\* HyperbolaSolver::new
HyperbolaNew(eccentricity) ==
    [eccentricity |-> eccentricity,
     pade_mean_anomaly_thresholds |->
        [j \in 1..TableLen |->
            hyperbolic_kepler_equation(eccentricity,
                                       PADE_ECCENTRIC_ANOMALY_THRESHOLDS[j])]]

\* g = ec * sa / den, h = ec * ca / den, r = num / den, r2 = r.powi(2)
AsymptoticDelta(fa, sixth, g, h, r, r2) ==
    Add(fa, Div(Add(sixth, Mul(Mul(Three, g), r2)),
                Add(Add(Six, Mul(Mul(Six, g), r)), Mul(h, r2))))

AsymptoticRatio(fa, sixth, g, h, r) == AsymptoticDelta(fa, sixth, g, h, r, Powi2(r))

\* den = ec * ca - 1.0, num = ec.powi(2) / (4.0 * mh) + fa
AsymptoticOver(ec, fa, ca, sa, den, num) ==
    AsymptoticRatio(fa, Div(Mul(Six, num), den), Div(Mul(ec, sa), den),
                    Div(Mul(ec, ca), den), Div(num, den))

AsymptoticParts(ec, mh, fa, ca, sa) ==
    AsymptoticOver(ec, fa, ca, sa, Sub(Mul(ec, ca), One),
                   Add(Div(Powi2(ec), Mul(Four, mh)), fa))

\* t = 2.0 * mh / ec, u = ec / (2.0 * mh)
AsymptoticOf(ec, mh, t, u) ==
    AsymptoticParts(ec, mh, Ln(t), Mul(Half, Add(t, u)), Mul(Half, Sub(t, u)))

\* the starting estimate of HyperbolaSolver::solve beyond the first threshold
Asymptotic(ec, mh) ==
    AsymptoticOf(ec, mh, Div(Mul(Two, mh), ec), Div(ec, Mul(Two, mh)))

\* f_prime_prime = f_prime + 1.0
HalleyOf(f0, f, f_prime) ==
    Sub(f0, Div(Div(Mul(Two, f), f_prime),
                Sub(Two, Div(Mul(f, Add(f_prime, One)), Powi2(f_prime)))))

\* HalleyFrom with f = ec * sinh(f0) - f0 + mh
HalleyFromSlip(ec, mh, f0, sc) ==
    HalleyOf(f0, Add(Sub(Mul(ec, sc[1]), f0), mh), Sub(Mul(ec, sc[2]), One))

\* sc = <<f0.sinh(), f0.cosh()>>
HalleyFrom(ec, mh, f0, sc) ==
    HalleyOf(f0, Sub(Sub(Mul(ec, sc[1]), f0), mh), Sub(Mul(ec, sc[2]), One))

\* the Halley step that ends HyperbolaSolver::solve
Halley(ec, mh, f0) == HalleyFrom(ec, mh, f0, SinhCosh(f0))


(***************************************************************************)
(* The state: the solver objects, the calls in flight and the test         *)
(* harness.                                                                *)
(*   solver  the solver objects by name: "ellipse" an EllipseSolver,       *)
(*           "hyperbola" a HyperbolaSolver, "copy" a second                *)
(*           HyperbolaSolver obtained by clone or deserialization          *)
(*           (NoSolver until then)                                         *)
(*   call    call[t], the locals of the solve call thread t is in:         *)
(*           pc its position, self the name of the solver it was called    *)
(*           on, the others the variables of the source of that name       *)
(*   test    the locals of the test functions: the bisection interval,     *)
(*           the expected root, the difference                             *)
(***************************************************************************)
VARIABLES solver, call, test

vars == <<solver, call, test>>

\* the threads that call solve
NumThreads == 2
Threads == 1..NumThreads

NoSolver == [eccentricity |-> NaN, pade_mean_anomaly_thresholds |-> <<>>]

NoCall ==
    [pc |-> "idle", self |-> "none", mean_anomaly |-> Zero(0),
     eccentric_anomaly |-> Zero(0), mh |-> Zero(0), i |-> 0, a |-> Zero(0),
     coefficients |-> <<Zero(0), Zero(0), Zero(0), Zero(0)>>, x |-> Zero(0),
     delta |-> Zero(0), f0 |-> Zero(0), result |-> Zero(0)]

\* SelfAfter for a solve that keeps its delta in the solver
SelfKeepsDelta(S, c) == [S EXCEPT !.eccentricity = Add(@, c.delta)]

\* solve takes &self: a step of a call leaves the solver as it is
SelfAfter(S, c) == S

(***************************************************************************)
(* EllipseSolver::solve, step by step                                      *)
(***************************************************************************)
EllipseEnter(S, name, mean_anomaly) ==
    [NoCall EXCEPT !.pc = "laguerre", !.self = name,
                   !.mean_anomaly = mean_anomaly,
                   !.eccentric_anomaly = EllipseSeed(S.eccentricity, mean_anomaly)]

LaguerreBody(S, c) ==
    [c EXCEPT !.delta = EllipseDelta(S.eccentricity, c.mean_anomaly,
                                     c.eccentric_anomaly),
              !.pc = "laguerre_test"]

LaguerreTest(S, c) ==
    IF Lt(Abs(c.delta), DELTA_THRESHOLD)
    THEN [c EXCEPT !.pc = "done", !.result = c.eccentric_anomaly]
    ELSE [c EXCEPT !.pc = "laguerre",
                   !.eccentric_anomaly = Add(c.eccentric_anomaly, c.delta)]

(***************************************************************************)
(* HyperbolaSolver::solve, step by step                                    *)
(***************************************************************************)
\* HyperbolaEnter with mh < thresholds[0] for the regime test
HyperbolaEnterLt(S, name, mean_anomaly) ==
    [NoCall EXCEPT !.self = name, !.mean_anomaly = mean_anomaly,
                   !.mh = Abs(mean_anomaly),
                   !.pc = IF Lt(Abs(mean_anomaly),
                                S.pade_mean_anomaly_thresholds[1])
                          THEN "scan" ELSE "asymptotic"]

HyperbolaEnter(S, name, mean_anomaly) ==
    [NoCall EXCEPT !.self = name, !.mean_anomaly = mean_anomaly,
                   !.mh = Abs(mean_anomaly),
                   !.pc = IF Le(Abs(mean_anomaly),
                                S.pade_mean_anomaly_thresholds[1])
                          THEN "scan" ELSE "asymptotic"]

\* ScanStep with mh <= thresholds[i+1] for the loop test
ScanStepLe(S, c) ==
    IF /\ c.i < Len(S.pade_mean_anomaly_thresholds) - 1
       /\ Le(c.mh, S.pade_mean_anomaly_thresholds[c.i + 2])
    THEN [c EXCEPT !.i = c.i + 1]
    ELSE [c EXCEPT !.a = PADE_ORDERS[c.i + 1], !.pc = "pade"]

\* one test of the while loop, and the lookup of PADE_ORDERS after it
ScanStep(S, c) ==
    IF /\ c.i < Len(S.pade_mean_anomaly_thresholds) - 1
       /\ Lt(c.mh, S.pade_mean_anomaly_thresholds[c.i + 2])
    THEN [c EXCEPT !.i = c.i + 1]
    ELSE [c EXCEPT !.a = PADE_ORDERS[c.i + 1], !.pc = "pade"]

PadeStep(S, c) ==
    [c EXCEPT !.coefficients = pade_approximation(S.eccentricity, c.mh, c.a),
              !.x = CubicSeed(c.mh, S.eccentricity),
              !.pc = "cubic"]

CubicBody(S, c) ==
    [c EXCEPT !.delta = CubicDelta(c.coefficients, c.x), !.pc = "cubic_test"]

CubicTest(S, c) ==
    IF Lt(Abs(c.delta), CUBIC_DELTA_THRESHOLD)
    THEN [c EXCEPT !.pc = "halley", !.f0 = Add(c.x, c.a)]
    ELSE [c EXCEPT !.pc = "cubic", !.x = Add(c.x, c.delta)]

AsymptoticStep(S, c) ==
    [c EXCEPT !.f0 = Asymptotic(S.eccentricity, c.mh), !.pc = "halley"]

HalleyStep(S, c) ==
    [c EXCEPT !.result = Mul(Halley(S.eccentricity, c.mh, c.f0),
                             Signum(c.mean_anomaly)),
              !.pc = "done"]

\* the step a call at c takes next
SolveStep(S, c) ==
    CASE c.pc = "laguerre" -> LaguerreBody(S, c)
      [] c.pc = "laguerre_test" -> LaguerreTest(S, c)
      [] c.pc = "scan" -> ScanStep(S, c)
      [] c.pc = "pade" -> PadeStep(S, c)
      [] c.pc = "cubic" -> CubicBody(S, c)
      [] c.pc = "cubic_test" -> CubicTest(S, c)
      [] c.pc = "asymptotic" -> AsymptoticStep(S, c)
      [] c.pc = "halley" -> HalleyStep(S, c)
      [] OTHER -> c

\* the steps a call may take before it is given up when run to its end
MaxSteps == 80

\* a call run alone, to its end
RECURSIVE RunAlone(_, _, _)
RunAlone(S, c, n) ==
    IF c.pc = "done" \/ n = 0 THEN c ELSE RunAlone(S, SolveStep(S, c), n - 1)

(***************************************************************************)
(* The actions of a thread in a call                                       *)
(***************************************************************************)
Take(t, c) ==
    /\ call' = [call EXCEPT ![t] = c]
    /\ solver' = [solver EXCEPT ![call[t].self] = SelfAfter(@, c)]
    /\ UNCHANGED test

EllipseLoopBody(t) ==
    /\ call[t].pc = "laguerre"
    /\ Take(t, LaguerreBody(solver[call[t].self], call[t]))

EllipseLoopTest(t) ==
    /\ call[t].pc = "laguerre_test"
    /\ Take(t, LaguerreTest(solver[call[t].self], call[t]))

HyperbolaScan(t) ==
    /\ call[t].pc = "scan"
    /\ Take(t, ScanStep(solver[call[t].self], call[t]))

HyperbolaPade(t) ==
    /\ call[t].pc = "pade"
    /\ Take(t, PadeStep(solver[call[t].self], call[t]))

CubicLoopBody(t) ==
    /\ call[t].pc = "cubic"
    /\ Take(t, CubicBody(solver[call[t].self], call[t]))

CubicLoopTest(t) ==
    /\ call[t].pc = "cubic_test"
    /\ Take(t, CubicTest(solver[call[t].self], call[t]))

HyperbolaAsymptotic(t) ==
    /\ call[t].pc = "asymptotic"
    /\ Take(t, AsymptoticStep(solver[call[t].self], call[t]))

HyperbolaHalley(t) ==
    /\ call[t].pc = "halley"
    /\ Take(t, HalleyStep(solver[call[t].self], call[t]))

\* the call returns its result
Return(t) ==
    /\ call[t].pc = "done"
    /\ call' = [call EXCEPT ![t] = NoCall]
    /\ UNCHANGED <<solver, test>>

EllipseSteps(t) == EllipseLoopBody(t) \/ EllipseLoopTest(t)

HyperbolaSteps(t) ==
    \/ HyperbolaScan(t)
    \/ HyperbolaPade(t)
    \/ CubicLoopBody(t)
    \/ CubicLoopTest(t)
    \/ HyperbolaAsymptotic(t)
    \/ HyperbolaHalley(t)


(***************************************************************************)
(* The test functions test_ellipse and test_hyperbola: for a pair (e, m)   *)
(* of the grids, a bisection on the equation, then the solver, then the    *)
(* comparison of the two results.                                          *)
(***************************************************************************)
\* x as f64 / 1000.0 and the like: the quotient of two integers
\* (Ratio, above)

\* the grids of test_ellipse: e = x / 1000 for x in 1..998 and
\* m = y / 1000 for y in 0..6282, and the samples taken of each
EllipseLastX == 998
EllipseLastY == 6282
EllipseESamples == 2
EllipseMSamples == 3

\* n points of 0..last, both ends among them
Spread(last, n) == {(j * last) \div (n - 1) : j \in 0..(n - 1)}

TestEllipseE == {Ratio(1 + x, 1000) : x \in Spread(EllipseLastX - 1, EllipseESamples)}
TestEllipseM == {Ratio(y, 1000) : y \in Spread(EllipseLastY, EllipseMSamples)}

\* the grids of test_hyperbola: e = 1 + x^2 / 1000 for x in 1..998 and
\* m = y^2 / 10000 for y in 0..9999, and the samples taken of each
HyperbolaLastX == 998
HyperbolaLastY == 9999
HyperbolaESamples == 2
HyperbolaMSamples == 3

\* n points of 0..last, denser near 0, both ends among them
SpreadSquare(last, n) ==
    {(j * j * last) \div ((n - 1) * (n - 1)) : j \in 0..(n - 1)}

TestHyperbolaE ==
    {Add(One, Div(Powi2(FromInt(1 + x)), FromInt(1000))) :
        x \in Spread(HyperbolaLastX - 1, HyperbolaESamples)}
TestHyperbolaM ==
    {Div(Powi2(FromInt(y)), FromInt(10000)) :
        y \in SpreadSquare(HyperbolaLastY, HyperbolaMSamples)}

\* the closures f of solve_with_bisection
EllipseResidual(e, m, eccentric_anomaly) ==
    Sub(Sub(eccentric_anomaly, m), Mul(e, Sin(eccentric_anomaly)))

HyperbolaResidual(e, m, eccentric_anomaly) ==
    Sub(Sub(Mul(e, Sinh(eccentric_anomaly)), eccentric_anomaly), m)

Residual(kind, e, m, v) ==
    IF kind = "ellipse" THEN EllipseResidual(e, m, v) ELSE HyperbolaResidual(e, m, v)

\* the interval bisection starts from: bisection(&f, -100000.0, 100000.0)
BisectionRange == F64(0, <<0, 0, 8192, 1562>>, -36)

\* the width at which bisection takes the interval for the root: 1.0e-10
BisectionTolerance == F64(0, <<15803, 10078, 3581, 1759>>, -86)

\* f_mid = f(mid); f_lower = f(lower) is kept from the step that set lower
BisectionPick(T, mid, f_mid) ==
    IF Le(Sub(T.upper, T.lower), BisectionTolerance) \/ IsZero(f_mid)
    THEN [T EXCEPT !.expected = mid, !.pc = "solve"]
    ELSE IF f_mid.s = T.f_lower.s
    THEN [T EXCEPT !.lower = mid, !.f_lower = f_mid]
    ELSE [T EXCEPT !.upper = mid]

BisectionAt(kind, T, mid) == BisectionPick(T, mid, Residual(kind, T.e, T.m, mid))

\* one halving of the interval [lower, upper], which holds a sign change
\* of f; the midpoint is the root once the interval is narrow or f
\* vanishes there
BisectionStep(kind, T) == BisectionAt(kind, T, Div(Add(T.lower, T.upper), Two))

\* the tolerance of the tests: 1.0e-4
TestTolerance == F64(0, <<813, 11377, 11822, 1677>>, -66)

\* the result below which test_hyperbola compares absolutely: 1.0e-5
TestNearZero == F64(0, <<10481, 9101, 2904, 1342>>, -69)

\* test_ellipse: relative unless actual is zero
EllipseDifference(expected, actual) ==
    Abs(IF ~Eq(actual, Zero(0))
        THEN Div(Sub(expected, actual), actual)
        ELSE Sub(expected, actual))

\* test_hyperbola: absolute when |actual| < 1.0e-5
HyperbolaDifference(expected, actual) ==
    Abs(IF Lt(Abs(actual), TestNearZero)
        THEN Sub(expected, actual)
        ELSE Div(Sub(expected, actual), actual))

TestStart(kind, e, m) ==
    [pc |-> "bisect", kind |-> kind, e |-> e, m |-> m,
     lower |-> Neg(BisectionRange), upper |-> BisectionRange,
     f_lower |-> Residual(kind, e, m, Neg(BisectionRange)),
     expected |-> Zero(0), difference |-> Zero(0)]

NoTest ==
    [pc |-> "off", kind |-> "none", e |-> Zero(0), m |-> Zero(0),
     lower |-> Zero(0), upper |-> Zero(0), f_lower |-> Zero(0),
     expected |-> Zero(0), difference |-> Zero(0)]

Solvers(e, h, c) == [ellipse |-> e, hyperbola |-> h, copy |-> c]

Idle == [t \in Threads |-> NoCall]

\* if difference > 1.0e-4 { panic!() }
TestVerdict(T, difference) ==
    [T EXCEPT !.difference = difference,
              !.pc = IF Lt(TestTolerance, difference) THEN "panic" ELSE "passed"]

\* let expected = solve_with_bisection(*e, *m), one halving at a time
TestBisect ==
    /\ test.pc = "bisect"
    /\ test' = BisectionStep(test.kind, test)
    /\ UNCHANGED <<solver, call>>

\* let actual = solver.solve(*m): the call is made
TestSolve ==
    /\ test.pc = "solve"
    /\ call[1].pc = "idle"
    /\ call' = [call EXCEPT ![1] =
                  IF test.kind = "ellipse"
                  THEN EllipseEnter(solver.ellipse, "ellipse", test.m)
                  ELSE HyperbolaEnter(solver.hyperbola, "hyperbola", test.m)]
    /\ test' = [test EXCEPT !.pc = "called"]
    /\ UNCHANGED solver

\* the call has returned: the difference, and the panic when it is too large
TestCompare ==
    /\ test.pc = "called"
    /\ call[1].pc = "done"
    /\ test' = TestVerdict(test, IF test.kind = "ellipse"
                                 THEN EllipseDifference(test.expected, call[1].result)
                                 ELSE HyperbolaDifference(test.expected, call[1].result))
    /\ UNCHANGED <<solver, call>>

InitTest ==
    /\ call = Idle
    /\ \/ \E e \in TestEllipseE, m \in TestEllipseM :
            /\ solver = Solvers(EllipseNew(e), NoSolver, NoSolver)
            /\ test = TestStart("ellipse", e, m)
       \/ \E e \in TestHyperbolaE, m \in TestHyperbolaM :
            /\ solver = Solvers(NoSolver, HyperbolaNew(e), NoSolver)
            /\ test = TestStart("hyperbola", e, m)

NextTest ==
    \/ TestBisect
    \/ TestSolve
    \/ TestCompare
    \/ EllipseSteps(1)
    \/ HyperbolaSteps(1)

SpecTest == InitTest /\ [][NextTest]_vars

ScanESamples == 2
\* the roots 0, 0.25, 0.5, ...: the last is MaxRootStep / 4
MaxRootStep == 22

ScanE == {Ratio(2 + j, 2) : j \in 1..ScanESamples}

RootGrid ==
    {Ratio(j, 4) : j \in 0..MaxRootStep}
        \cup {PADE_ECCENTRIC_ANOMALY_THRESHOLDS[k] : k \in 1..TableLen}

\* 1.0e200
LargeM == F64(0, <<8794, 8029, 12685, 1337>>, 612)

SignedBy(s, v) == IF s = 1 THEN Neg(v) ELSE v

ScanFrom(kind, H, m) ==
    /\ call' = [call EXCEPT ![1] = HyperbolaEnter(solver.hyperbola, "hyperbola", m)]
    /\ test' = [NoTest EXCEPT !.pc = kind, !.kind = "hyperbola",
                              !.e = solver.hyperbola.eccentricity,
                              !.m = m, !.expected = H]
    /\ UNCHANGED solver

\* solver.solve(m) for m = +-(e * sinh(H) - H)
ScanCall ==
    /\ test.pc = "off"
    /\ call[1].pc = "idle"
    /\ \E H \in RootGrid, s \in 0..1 :
          ScanFrom("root", H,
                   SignedBy(s, hyperbolic_kepler_equation(
                                   solver.hyperbola.eccentricity, H)))

\* solver.solve(m) for m = +-1.0e200
ScanCallLarge ==
    /\ test.pc = "off"
    /\ call[1].pc = "idle"
    /\ \E s \in 0..1 : ScanFrom("large", Zero(0), SignedBy(s, LargeM))

InitScan ==
    /\ call = Idle
    /\ test = NoTest
    /\ \E e \in ScanE : solver = Solvers(NoSolver, HyperbolaNew(e), NoSolver)

NextScan == ScanCall \/ ScanCallLarge \/ HyperbolaSteps(1) \/ Return(1)

SpecScan == InitScan /\ [][NextScan]_vars

\* solve(m) on the solver S of the given kind, run alone to its end
SolveAlone(S, kind, m) ==
    RunAlone(S, IF kind = "ellipse" THEN EllipseEnter(S, "ellipse", m)
                ELSE HyperbolaEnter(S, "hyperbola", m),
             MaxSteps)

\* C3: HyperbolaSolver.solve is odd in the mean anomaly: for e > 1 and every
\* finite M, the result of solve(M) equals (as f64 values compare) the
\* negation of the result of solve(-M), and solve(0) equals 0.
C3_Odd ==
    (call[1].pc = "done" /\ call[1].self = "hyperbola"
        /\ IsFinite(call[1].mean_anomaly))
    => /\ Eq(call[1].result,
             Neg(SolveAlone(solver.hyperbola, "hyperbola",
                            Neg(call[1].mean_anomaly)).result))
       /\ IsZero(call[1].mean_anomaly) => Eq(call[1].result, Zero(0))

\* the orders as the claim lists them: 5.0, 4.5, 4.0, 3.5, 3.0, 2.5, 2.0,
\* 1.75, 1.5, 1.25, 1.0, 0.75, 0.5, 0.25, 0.0
StatedOrders ==
    << F64(0, <<0, 0, 0, 1280>>, -50), F64(0, <<0, 0, 0, 1152>>, -50),
       F64(0, <<0, 0, 0, 1024>>, -50), F64(0, <<0, 0, 0, 1792>>, -51),
       F64(0, <<0, 0, 0, 1536>>, -51), F64(0, <<0, 0, 0, 1280>>, -51),
       F64(0, <<0, 0, 0, 1024>>, -51), F64(0, <<0, 0, 0, 1792>>, -52),
       F64(0, <<0, 0, 0, 1536>>, -52), F64(0, <<0, 0, 0, 1280>>, -52),
       F64(0, <<0, 0, 0, 1024>>, -52), F64(0, <<0, 0, 0, 1536>>, -53),
       F64(0, <<0, 0, 0, 1024>>, -53), F64(0, <<0, 0, 0, 1024>>, -54),
       Zero(0) >>

\* i (counted from 0) is the first index for which mh is not below T[i+1],
\* or the last index when mh is below every later entry
ScanStopsAt(T, mh, i) ==
    /\ i \in 0..(TableLen - 1)
    /\ \A k \in 0..(i - 1) : Lt(mh, T[k + 2])
    /\ i < TableLen - 1 => ~Lt(mh, T[i + 2])

\* T[i+1] <= mh <= T[i], or 0 <= mh < T[14] at the last index
Brackets(T, mh, i) ==
    IF i < TableLen - 1
    THEN Le(T[i + 2], mh) /\ Le(mh, T[i + 1])
    ELSE Le(Zero(0), mh) /\ Lt(mh, T[TableLen])

\* C8: in Regime A the scan stops at the first index i in 0..14 for which
\* |M| is not below thresholds[i+1] (14 when it is below all of them), the
\* thresholds at i bracket |M|, and the order used is entry i of the
\* listed orders.
C8_ScanIndex ==
    call[1].pc = "pade"
    => /\ ScanStopsAt(solver[call[1].self].pade_mean_anomaly_thresholds,
                      call[1].mh, call[1].i)
       /\ Brackets(solver[call[1].self].pade_mean_anomaly_thresholds,
                   call[1].mh, call[1].i)
       /\ call[1].a = StatedOrders[call[1].i + 1]

\* the scan has stopped at an index strictly inside the table
C8_Witness == call[1].pc = "pade" /\ call[1].i > 0 /\ call[1].i < TableLen - 1

\* 22.85
Stated2285 == F64(0, <<6554, 9830, 6553, 1462>>, -48)
\* 69.2
Above692 == F64(0, <<3277, 13107, 3276, 1107>>, -46)

\* the regime a call is in is Regime A exactly when |M| <= thresholds[0],
\* which is the largest entry of the table
RegimeByFirst(T, c) ==
    /\ \A k \in 1..TableLen : Le(T[k], T[1])
    /\ c.pc \in {"scan", "pade", "cubic", "cubic_test"} => Le(c.mh, T[1])
    /\ c.pc = "asymptotic" => ~Le(c.mh, T[1])

Quarter == F64(0, <<0, 0, 0, 1024>>, -54)

\* B[i+1] <= PADE_ORDERS[i] <= B[i], with 0 after the last B
TablesAligned ==
    \A i \in 1..TableLen :
        /\ Le(IF i < TableLen THEN PADE_ECCENTRIC_ANOMALY_THRESHOLDS[i + 1]
              ELSE Zero(0),
              PADE_ORDERS[i])
        /\ Le(PADE_ORDERS[i], PADE_ECCENTRIC_ANOMALY_THRESHOLDS[i])

\* C10: every order lies in the interval of breakpoints of its index, and
\* in Regime A the root H of e * sinh(H) - H = |M| is within 0.25 of the
\* expansion point a the scan selects.
C10_Aligned ==
    /\ TablesAligned
    /\ (call[1].pc = "pade" /\ test.pc = "root")
       => Le(Abs(Sub(test.expected, call[1].a)), Quarter)

\* the scan has selected an expansion point exactly 0.25 from the root
C10_Witness ==
    /\ call[1].pc = "pade"
    /\ test.pc = "root"
    /\ Eq(Abs(Sub(test.expected, call[1].a)), Quarter)

(***************************************************************************)
(* Threads that call solve on one shared EllipseSolver and one shared      *)
(* HyperbolaSolver, in any interleaving of their steps.                    *)
(***************************************************************************)
\* 1.5
OnePointFive == F64(0, <<0, 0, 0, 1536>>, -52)
\* 1.2
OnePointTwo == F64(0, <<13107, 3276, 13107, 1228>>, -52)
\* 100.0
Hundred == F64(0, <<0, 0, 0, 1600>>, -46)
\* 200.0
TwoHundred == F64(0, <<0, 0, 0, 1600>>, -45)

SharedSolvers == Solvers(EllipseNew(Half), HyperbolaNew(OnePointFive), NoSolver)

ConcurrentEllipseM == {OnePointTwo}
ConcurrentHyperbolaM == {Hundred, TwoHundred}

CallEllipse(t) ==
    /\ call[t].pc = "idle"
    /\ \E m \in ConcurrentEllipseM :
          call' = [call EXCEPT ![t] = EllipseEnter(solver.ellipse, "ellipse", m)]
    /\ UNCHANGED <<solver, test>>

CallHyperbola(t) ==
    /\ call[t].pc = "idle"
    /\ \E m \in ConcurrentHyperbolaM :
          call' = [call EXCEPT ![t] =
                      HyperbolaEnter(solver.hyperbola, "hyperbola", m)]
    /\ UNCHANGED <<solver, test>>

InitConcurrent == solver = SharedSolvers /\ call = Idle /\ test = NoTest

NextConcurrent ==
    \E t \in Threads :
        \/ CallEllipse(t)
        \/ CallHyperbola(t)
        \/ EllipseSteps(t)
        \/ HyperbolaSteps(t)
        \/ Return(t)

SpecConcurrent == InitConcurrent /\ [][NextConcurrent]_vars

\* C7: no step of a solve call changes a solver, and under every
\* interleaving a call ends with the result the same call has when run
\* alone on the solver as constructed.
C7_Pure ==
    /\ solver = SharedSolvers
    /\ \A t \in Threads :
          call[t].pc = "done"
          => call[t].result
                = SolveAlone(SharedSolvers[call[t].self], call[t].self,
                             call[t].mean_anomaly).result

\* a call has ended while another call on the same solver is in its loop
C7_Witness ==
    \E t, u \in Threads :
        /\ t # u
        /\ call[t].pc = "done"
        /\ call[u].pc \in {"laguerre", "laguerre_test", "cubic", "cubic_test"}
        /\ call[t].self = call[u].self

(***************************************************************************)
(* One solve call, run for as long as it has a step to take, on inputs in  *)
(* and out of the documented domain.                                       *)
(***************************************************************************)
\* 0.9999999999999999
BelowOne == F64(0, <<16383, 16383, 16383, 2047>>, -53)
\* 4.1765602087072485e-24
TinyM == F64(0, <<7133, 3634, 9548, 1292>>, -130)
\* 1.1557779972624462e159
HugeE == F64(0, <<11581, 7369, 14812, 1346>>, 476)
\* 1.1453836663524244e159
HugeM == F64(0, <<13901, 13567, 12957, 1334>>, 476)

Input(kind, e, m) == [kind |-> kind, e |-> e, m |-> m]

FairInputs ==
    { Input("ellipse", Half, OnePointTwo),
      Input("ellipse", BelowOne, TinyM),
      Input("ellipse", One, Zero(0)),
      Input("ellipse", One, OnePointTwo),
      Input("hyperbola", OnePointFive, OnePointTwo),
      Input("hyperbola", OnePointFive, TwoHundred),
      Input("hyperbola", One, OnePointTwo),
      Input("hyperbola", One, Hundred),
      Input("hyperbola", HugeE, HugeM) }

InitFair ==
    /\ call = Idle
    /\ \E inp \in FairInputs :
          /\ solver = Solvers(IF inp.kind = "ellipse"
                              THEN EllipseNew(inp.e) ELSE NoSolver,
                              IF inp.kind = "hyperbola"
                              THEN HyperbolaNew(inp.e) ELSE NoSolver,
                              NoSolver)
          /\ test = [NoTest EXCEPT !.pc = "input", !.kind = inp.kind,
                                   !.e = inp.e, !.m = inp.m]

\* solver.solve(m)
FairCall ==
    /\ test.pc = "input"
    /\ call[1].pc = "idle"
    /\ call' = [call EXCEPT ![1] =
                  IF test.kind = "ellipse"
                  THEN EllipseEnter(solver.ellipse, "ellipse", test.m)
                  ELSE HyperbolaEnter(solver.hyperbola, "hyperbola", test.m)]
    /\ test' = [test EXCEPT !.pc = "called"]
    /\ UNCHANGED solver

NextFair == FairCall \/ EllipseSteps(1) \/ HyperbolaSteps(1) \/ Return(1)

\* The thread has an instruction to execute: the call has not been made, or
\* it has been made and has not returned.  This is ENABLED <<NextFair>>_vars,
\* since every step of a call moves its pc.
HasStep == test.pc = "input" \/ call[1].pc # "idle"

\* The pc of the thread moves.  No step of NextFair goes to this pc.
PcMoves ==
    /\ HasStep
    /\ call' = [call EXCEPT ![1].pc = "elsewhere"]
    /\ UNCHANGED <<solver, test>>

\* A thread in a call keeps executing it: a step that can be taken is taken.
\* The fairness condition is WF_vars(NextFair): <<PcMoves \/ NextFair>>_vars
\* is enabled exactly when <<NextFair>>_vars is, and the steps of
\* [NextFair]_vars that satisfy it are the <<NextFair>>_vars steps.  With
\* PcMoves first its enabling condition is decided by HasStep.
SpecFair == InitFair /\ [][NextFair]_vars /\ WF_vars(PcMoves \/ NextFair)

InCall == call[1].pc \notin {"idle", "done"}

\* a value of the call in flight is NaN or infinite
NonFiniteIntermediate ==
    /\ InCall
    /\ \/ ~IsFinite(call[1].eccentric_anomaly)
       \/ ~IsFinite(call[1].delta)
       \/ ~IsFinite(call[1].x)
       \/ ~IsFinite(call[1].f0)
       \/ \E k \in 1..4 : ~IsFinite(call[1].coefficients[k])

\* C4: whenever an input such as e exactly 1 or M exactly 0 makes an
\* intermediate value NaN or infinite, the solve call returns, and what it
\* returns is NaN or infinite.
C4_Propagates ==
    [](NonFiniteIntermediate
        => <>(call[1].pc = "done" /\ ~IsFinite(call[1].result)))

\* 0 < e < 1 and 0 < M < 2 pi for the ellipse solver; e > 1 and
\* |M| <= thresholds[0] for the cubic loop of the hyperbola solver
InDomain ==
    IF test.kind = "ellipse"
    THEN /\ Lt(Zero(0), test.e) /\ Lt(test.e, One)
         /\ Lt(Zero(0), test.m) /\ Lt(test.m, Mul(Two, PI))
    ELSE /\ Lt(One, test.e)
         /\ Le(Abs(test.m), solver.hyperbola.pade_mean_anomaly_thresholds[1])

\* C5: for in-domain inputs every solve call terminates: its loop
\* eventually computes a delta below the threshold and exits.
C5_Terminates == [](InCall /\ InDomain => <>(call[1].pc = "done"))

(***************************************************************************)
(* HyperbolaSolver values by clone and by deserialization: the derived     *)
(* Clone copies both fields, the derived Deserialize takes both fields     *)
(* from the document.                                                      *)
(***************************************************************************)
SerdeE == {OnePointFive, Two}
SerdeM == {OnePointTwo, Hundred, TwoHundred}

\* the documents that deserialize: an f64 and an array of 15 f64
Documents ==
    {[eccentricity |-> e1,
      pade_mean_anomaly_thresholds |-> HyperbolaNew(e2).pade_mean_anomaly_thresholds] :
        e1 \in SerdeE, e2 \in SerdeE}

\* let copy = solver.clone()
Clone ==
    /\ call[1].pc = "idle"
    /\ solver' = [solver EXCEPT !.copy = solver.hyperbola]
    /\ UNCHANGED <<call, test>>

\* let copy: HyperbolaSolver = deserialize(doc)
Deserialize ==
    /\ call[1].pc = "idle"
    /\ \E doc \in Documents : solver' = [solver EXCEPT !.copy = doc]
    /\ UNCHANGED <<call, test>>

\* copy.solve(m)
CallCopy ==
    /\ call[1].pc = "idle"
    /\ solver.copy # NoSolver
    /\ \E m \in SerdeM :
          call' = [call EXCEPT ![1] = HyperbolaEnter(solver.copy, "copy", m)]
    /\ UNCHANGED <<solver, test>>

InitSerde ==
    /\ solver = Solvers(NoSolver, HyperbolaNew(OnePointFive), NoSolver)
    /\ call = Idle
    /\ test = NoTest

NextSerde ==
    Clone \/ Deserialize \/ CallCopy \/ HyperbolaSteps(1) \/ Return(1)

SpecSerde == InitSerde /\ [][NextSerde]_vars

\* C6: in every HyperbolaSolver value, however obtained and after any
\* number of solve calls, the threshold table is the one derived from the
\* stored eccentricity.
C6_Derived ==
    \A name \in {"hyperbola", "copy"} :
        solver[name] # NoSolver
        => solver[name].pade_mean_anomaly_thresholds
              = HyperbolaNew(solver[name].eccentricity).pade_mean_anomaly_thresholds
====
